---- MODULE Spec2Model ----
(***************************************************************************)
(* The shardcast downloader loop, main() of                                *)
(* src/zeroband/inference/shardcast_downloader.py: every POLL_INTERVAL it  *)
(* lists the versions the servers advertise, plans the versions to have    *)
(* locally (newest window, backlog cursor, versions missing so far),       *)
(* downloads those not on disk, marks them stable and deletes the version  *)
(* versions_to_keep behind the one just downloaded.                        *)
(*                                                                         *)
(* logged_versions only decides whether a message is written to the log;   *)
(* no branch that touches a file, the missing set or the cursor reads it,  *)
(* and its keys do not interact. The state holds the part of it that lies  *)
(* in log_keys, the keys whose log lines a run is followed for: none under *)
(* Spec, one key under LogSpec.                                            *)
(***************************************************************************)
EXTENDS Integers, Sequences, FiniteSets

\* ------------------------------------------------------------------ bounds
\* Versions are 0 .. MaxVersion; the window and the retention horizon the
\* process is started with range over 0 .. MaxWindow and -1 .. MaxKeep.
MaxVersion == 1
MaxWindow == 2
MaxKeep == 1
\* The count of log lines stops at MaxLines.
MaxLines == 2

Versions == 0 .. MaxVersion
\* The keys of logged_versions: a version, or -1 for "No versions available".
Keys == Versions \cup {-1}

VARIABLES
    pc,                 \* where main() is: "start" (line 31), "reconcile" (line 46),
                        \* "sleep" (line 84), "sleep_empty" (line 37), "crashed" (it ended)
    window_size,        \* argument window_size
    versions_to_keep,   \* argument versions_to_keep (-1: retention disabled)
    backlog_start,      \* argument backlog_version as passed in (-1: no backlog)
    backlog_version,    \* the local backlog_version, advanced by the loop
    available_versions, \* sorted list of the versions of the last poll
    window,             \* the value of available_versions[-window_size:] of the last plan
    target_versions,    \* the set target_versions of the last plan
    outcome,            \* per version: what the for loop of the last plan did with it
    sweep,              \* what the deletion of the expired version did in the last iteration
    returned,           \* while a tick is in progress: the versions the tick before found
                        \* absent from the catalog and this one finds advertised
    missing_versions,   \* the set missing_versions
    log_keys,           \* the keys whose log lines are followed
    logged_versions,    \* the set logged_versions, within log_keys
    warnings,           \* warnings written so far by this process for the keys followed
    payload,            \* versions whose step_{v}/model.safetensors exists
    stable              \* versions whose step_{v}/stable exists

vars == <<pc, window_size, versions_to_keep, backlog_start, backlog_version,
          available_versions, window, target_versions, outcome, sweep, returned,
          missing_versions, log_keys, logged_versions, warnings, payload, stable>>

args == <<window_size, versions_to_keep, backlog_start>>
files == <<payload, stable>>
logs == <<logged_versions, warnings>>

\* ----------------------------------------------------------------- helpers
Min(S) == CHOOSE x \in S : \A y \in S : x <= y
Range(s) == {s[i] : i \in 1 .. Len(s)}

\* sorted(...) of a set of integers: the ascending list of its elements.
RECURSIVE Sorted(_)
Sorted(S) == IF S = {} THEN <<>> ELSE <<Min(S)>> \o Sorted(S \ {Min(S)})

\* Python's s[i:] : a negative i counts from the end, clamped at the front;
\* a non-negative i (0 included, and -0 is 0) counts from the front.
PySliceFrom(s, i) ==
    LET n == Len(s)
        from == IF i < 0 THEN (IF n + i < 0 THEN 0 ELSE n + i)
                         ELSE (IF i > n THEN n ELSE i)
    IN  SubSeq(s, from + 1, n)

\* Line 40: available_versions[-window_size:].
Window(av, w) == PySliceFrom(av, 0 - w)

\* Lines 40-45: the target set of a tick.
PlanTargets(av, w, b, missing) ==
    Range(Window(av, w)) \cup (IF b # -1 THEN {b} ELSE {}) \cup missing

\* The cursor as it would be if the loop forgot to advance it.
BacklogNotAdvanced(b) == b

\* Lines 41-43: the cursor after planning.
AdvanceBacklog(b) == IF b # -1 THEN b + 1 ELSE b

\* A message is written whether or not its key was logged before.
LogsAlways(logged, key) == TRUE

\* Lines 34, 49, 55: a message is written when its key is not logged yet.
Logs(logged, key) == key \notin logged

\* The logged keys as they would be if the key were not recorded.
LogNotRecorded(logged, key) == logged

\* Lines 36, 51, 57: the key is recorded as logged.
LogOnce(logged, key) == logged \cup {key}

\* The missing set as it would be if the version were not recorded.
MissingNotMarked(missing, v) == missing

\* Line 52 and line 82: the version is kept for the next ticks.
MarkMissing(missing, v) == missing \cup {v}

\* Lines 58-59 and 78-79: the version leaves the missing set.
ClearMissing(missing, v) == missing \ {v}

\* The expired version as it would be with the horizon off by one.
ExpiredOffByOne(v, keep) == v - keep - 1

\* The markers as they would be if the marker were written whatever
\* download_version returned.
TouchAlways(s, v, filepath) == s \cup {v}

\* Lines 66-67: the marker is touched when download_version returned a path.
TouchIfPath(s, v, filepath) == IF filepath # "none" THEN s \cup {v} ELSE s

\* Lines 70-71: the version deleted after downloading v.
ExpiredVersion(v, keep) == v - keep

\* Lines 69-77: unlink the payload, then the marker, of the expired version e.
\* A missing file raises FileNotFoundError and any other failure (perr for the
\* payload, serr for the marker) another exception; either ends the try block.
\* The tag tells which unlink ended the block, or "deleted" when none did.
Unlink(e, p, s, perr, serr) ==
    IF e \notin p THEN [payload |-> p, stable |-> s, tag |-> "payload_notfound"]
    ELSE IF perr THEN [payload |-> p, stable |-> s, tag |-> "payload_error"]
    ELSE IF e \notin s THEN [payload |-> p \ {e}, stable |-> s, tag |-> "marker_notfound"]
    ELSE IF serr THEN [payload |-> p \ {e}, stable |-> s, tag |-> "marker_error"]
    ELSE [payload |-> p \ {e}, stable |-> s \ {e}, tag |-> "deleted"]

\* The sweep as it would be without the test of the -1 sentinel.
RetainAlways(v, keep, p, s, perr, serr) ==
    Unlink(ExpiredVersion(v, keep), p, s, perr, serr)

\* Lines 68-77: the retention sweep after a download of v, if configured.
Retain(v, keep, p, s, perr, serr) ==
    IF keep # -1 THEN Unlink(ExpiredVersion(v, keep), p, s, perr, serr)
    ELSE [payload |-> p, stable |-> s, tag |-> "-"]

\* logged_versions after a message with this key came up, as far as followed.
Logged(key) == LogOnce(logged_versions, key) \cap log_keys

\* The count of warnings after a warning with this key came up.
Warned(key) ==
    IF key \in log_keys /\ Logs(logged_versions, key) /\ warnings < MaxLines
    THEN warnings + 1 ELSE warnings

NoOutcome == [v \in Versions |-> "-"]
Pending == {v \in Versions : outcome[v] = "pending"}

\* ------------------------------------------------------------------- Init
\* Lines 15-29: main() is entered with its arguments, an empty output
\* directory and empty tracking sets.
Init ==
    /\ pc = "start"
    /\ window_size \in 0 .. MaxWindow
    /\ versions_to_keep \in -1 .. MaxKeep
    /\ backlog_start \in -1 .. MaxVersion
    /\ backlog_version = backlog_start
    /\ available_versions = <<>>
    /\ window = <<>>
    /\ target_versions = {}
    /\ outcome = NoOutcome
    /\ sweep = "-"
    /\ returned = {}
    /\ missing_versions = {}
    /\ log_keys = {}
    /\ logged_versions = {}
    /\ warnings = 0
    /\ payload = {}
    /\ stable = {}

\* Line 32 is reached on entry and after either sleep (lines 37 and 84).
AtPoll == pc \in {"start", "sleep", "sleep_empty"}

\* Lines 46, 83-84: the for loop goes on while versions are left and falls
\* through to the log line and the sleep when none is.
AfterVersion(left) == IF left = {} THEN "sleep" ELSE "reconcile"

\* The versions that came back are remembered while the tick is in progress.
StillReturned(left) == IF left = {} THEN {} ELSE returned

\* ---------------------------------------------------------------- actions
\* The process is gone: its locals are lost, the arguments it was started
\* with and the output directory stay.
Ended(at) ==
    /\ pc' = at
    /\ backlog_version' = backlog_start
    /\ available_versions' = <<>>
    /\ window' = <<>>
    /\ target_versions' = {}
    /\ outcome' = NoOutcome
    /\ sweep' = "-"
    /\ returned' = {}
    /\ missing_versions' = {}
    /\ logged_versions' = {}
    /\ warnings' = 0
    /\ UNCHANGED <<args, log_keys, files>>

\* Line 32: client.list_available_versions() raises. Nothing catches it: the
\* exception leaves main() and the process ends.
PollRaise ==
    /\ AtPoll
    /\ Ended("crashed")

\* Lines 32-38: the catalog is empty; warn once, sleep, poll again.
PollEmpty ==
    /\ AtPoll
    /\ available_versions' = <<>>
    /\ returned' = {}
    /\ warnings' = Warned(-1)
    /\ logged_versions' = Logged(-1)
    /\ pc' = "sleep_empty"
    /\ UNCHANGED <<args, log_keys, backlog_version, window, target_versions, outcome, sweep,
                   missing_versions, files>>

\* Lines 32-45: the catalog holds the versions C; plan the tick.
PollVersions(C) ==
    /\ AtPoll
    /\ C # {}
    /\ backlog_version <= MaxVersion
    /\ available_versions' = Sorted(C)
    /\ window' = Window(available_versions', window_size)
    /\ target_versions' =
           PlanTargets(available_versions', window_size, backlog_version, missing_versions)
    /\ backlog_version' = AdvanceBacklog(backlog_version)
    /\ outcome' = [v \in Versions |-> IF v \in target_versions' THEN "pending" ELSE "-"]
    /\ sweep' = "-"
    /\ returned' = IF pc = "sleep" /\ target_versions' # {}
                   THEN {v \in C : outcome[v] = "absent"} ELSE {}
    /\ pc' = AfterVersion(target_versions')
    /\ UNCHANGED <<args, log_keys, logs, missing_versions, files>>

\* Lines 46-53: the next version of sorted(target_versions) is not advertised.
NotFound ==
    /\ pc = "reconcile"
    /\ LET v == Min(Pending) IN
        /\ v \notin Range(available_versions)
        /\ warnings' = Warned(v)
        /\ logged_versions' = Logged(v)
        /\ missing_versions' = MarkMissing(missing_versions, v)
        /\ outcome' = [outcome EXCEPT ![v] = "absent"]
        /\ pc' = AfterVersion(Pending \ {v})
        /\ returned' = StillReturned(Pending \ {v})
    /\ sweep' = "-"
    /\ UNCHANGED <<args, log_keys, backlog_version, available_versions, window, target_versions,
                   files>>

\* Lines 54-60: the payload file of the next version exists; skip it.
AlreadyExists ==
    /\ pc = "reconcile"
    /\ LET v == Min(Pending) IN
        /\ v \in Range(available_versions)
        /\ v \in payload
        /\ logged_versions' = Logged(v)
        /\ missing_versions' = ClearMissing(missing_versions, v)
        /\ outcome' = [outcome EXCEPT ![v] = "skip"]
        /\ pc' = AfterVersion(Pending \ {v})
        /\ returned' = StillReturned(Pending \ {v})
    /\ sweep' = "-"
    /\ UNCHANGED <<args, log_keys, warnings, backlog_version, available_versions, window, target_versions,
                   files>>

\* Lines 61-79: download_version returns the path; touch the marker, sweep
\* the expired version, take the version out of the missing set.
DownloadOk(perr, serr) ==
    /\ pc = "reconcile"
    /\ LET v == Min(Pending)
           r == Retain(v, versions_to_keep, payload \cup {v},
                       TouchIfPath(stable, v, "path"), perr, serr)
       IN
        /\ v \in Range(available_versions)
        /\ v \notin payload
        /\ payload' = r.payload
        /\ stable' = r.stable
        /\ sweep' = r.tag
        /\ missing_versions' = ClearMissing(missing_versions, v)
        /\ outcome' = [outcome EXCEPT ![v] = "path"]
        /\ pc' = AfterVersion(Pending \ {v})
        /\ returned' = StillReturned(Pending \ {v})
    /\ UNCHANGED <<args, log_keys, logs, backlog_version, available_versions, window, target_versions>>

\* Lines 61-66: download_version returns None; whether it left a payload file
\* behind (wrote) is the transport's business. Nothing else happens.
DownloadNone(wrote) ==
    /\ pc = "reconcile"
    /\ LET v == Min(Pending) IN
        /\ v \in Range(available_versions)
        /\ v \notin payload
        /\ payload' = IF wrote THEN payload \cup {v} ELSE payload
        /\ stable' = TouchIfPath(stable, v, "none")
        /\ outcome' = [outcome EXCEPT ![v] = "none"]
        /\ pc' = AfterVersion(Pending \ {v})
        /\ returned' = StillReturned(Pending \ {v})
    /\ sweep' = "-"
    /\ UNCHANGED <<args, log_keys, logs, backlog_version, available_versions, window, target_versions,
                   missing_versions>>

\* Lines 61-67, 80-82: download_version (or the touch after it) raises; the
\* payload file may have been written (wrote). The version joins the missing set.
DownloadRaise(wrote) ==
    /\ pc = "reconcile"
    /\ LET v == Min(Pending) IN
        /\ v \in Range(available_versions)
        /\ v \notin payload
        /\ payload' = IF wrote THEN payload \cup {v} ELSE payload
        /\ missing_versions' = MarkMissing(missing_versions, v)
        /\ outcome' = [outcome EXCEPT ![v] = "raise"]
        /\ pc' = AfterVersion(Pending \ {v})
        /\ returned' = StillReturned(Pending \ {v})
    /\ sweep' = "-"
    /\ UNCHANGED <<args, log_keys, logs, backlog_version, available_versions, window, target_versions,
                   stable>>

\* Lines 87-105: the process is stopped from outside, or has crashed, and
\* main() is started again with the same arguments on the same directory.
Restart ==
    /\ pc # "start"
    /\ Ended("start")

Poll == PollRaise \/ PollEmpty \/ \E C \in SUBSET Versions : PollVersions(C)

Reconcile ==
    \/ NotFound
    \/ AlreadyExists
    \/ \E perr, serr \in BOOLEAN : DownloadOk(perr, serr)
    \/ \E wrote \in BOOLEAN : DownloadNone(wrote)
    \/ \E wrote \in BOOLEAN : DownloadRaise(wrote)

Next == Poll \/ Reconcile \/ Restart

Spec == Init /\ [][Next]_vars

\* ------------------------------------------- a run whose log is followed
\* The same process, the log lines of one key being followed.
LogInit ==
    /\ pc = "start"
    /\ window_size \in 0 .. MaxWindow
    /\ versions_to_keep \in -1 .. MaxKeep
    /\ backlog_start \in -1 .. MaxVersion
    /\ backlog_version = backlog_start
    /\ available_versions = <<>>
    /\ window = <<>>
    /\ target_versions = {}
    /\ outcome = NoOutcome
    /\ sweep = "-"
    /\ returned = {}
    /\ missing_versions = {}
    /\ log_keys \in {{k} : k \in Keys}
    /\ logged_versions = {}
    /\ warnings = 0
    /\ payload = {}
    /\ stable = {}

LogSpec == LogInit /\ [][Next]_vars

\* ------------------------------------------------- a steady, healthy run
\* The servers keep advertising the same non-empty catalog, every download
\* returns its path and every unlink of an existing file succeeds. The
\* process starts without backlog on a directory left by earlier runs.
LiveInit ==
    /\ pc = "start"
    /\ window_size \in 1 .. MaxWindow
    /\ versions_to_keep \in 0 .. MaxKeep
    /\ backlog_start = -1
    /\ backlog_version = backlog_start
    /\ available_versions = <<>>
    /\ window = <<>>
    /\ target_versions = {}
    /\ outcome = NoOutcome
    /\ sweep = "-"
    /\ returned = {}
    /\ missing_versions = {}
    /\ log_keys = {}
    /\ logged_versions = {}
    /\ warnings = 0
    /\ payload \in SUBSET Versions
    /\ stable \in SUBSET payload

LivePoll ==
    \E C \in SUBSET Versions :
        /\ pc = "start" \/ Sorted(C) = available_versions
        /\ PollVersions(C)

LiveNext == LivePoll \/ AlreadyExists \/ DownloadOk(FALSE, FALSE)

\* The loop is one thread that never blocks for good: a step that can be
\* taken is taken.
LiveSpec == LiveInit /\ [][LiveNext]_vars /\ WF_vars(LiveNext)

\* ------------------------------------------------------ vocabulary of claims
\* The n largest elements of S (all of S when it has fewer).
Newest(S, n) == {x \in S : Cardinality({y \in S : y > x}) < n}

Catalog == Range(available_versions)
Fetched == {"path", "none", "raise"}
Settled == {"absent", "skip", "path", "none", "raise"}
\* The sweep ended on an error other than "file not found".
SweepFailed == {"payload_error", "marker_error"}
\* The sweep got as far as the unlink of the marker.
MarkerTried == {"marker_notfound", "marker_error", "deleted"}

\* The step processes version v of the target set.
Processes(v) == outcome[v] = "pending" /\ outcome'[v] \in Settled
\* The step polls a non-empty catalog and plans a tick.
PlansTick == AtPoll /\ pc' \in {"reconcile", "sleep"}
\* The step ends the process (crash) or starts it again.
EndsProcess == pc' \in {"crashed", "start"}

\* ------------------------------------------------------------------- C1
\* C1: when the fetch of a targeted version v raises, the tick goes on: the
\* loop neither crashes nor stops, the versions after v are still processed
\* before the tick ends, v is in the missing set at the end of the tick and
\* in the target set of the next tick that sees a non-empty catalog.
C1_Step ==
    \A v \in Versions :
        /\ (Processes(v) /\ outcome'[v] = "raise") =>
              /\ pc' = (IF Pending \ {v} = {} THEN "sleep" ELSE "reconcile")
              /\ v \in missing_versions'
        /\ (outcome'[v] = "raise" /\ pc' = "sleep") =>
              /\ v \in missing_versions'
              /\ \A u \in target_versions' : outcome'[u] \in Settled
        /\ (outcome[v] = "raise" /\ PlansTick) => v \in target_versions'

\* C1 (failure isolation): every step of the loop satisfies C1_Step.
C1_FailureIsolation == [][C1_Step]_vars

\* A tick has ended in which the fetch of v raised and a later version was
\* still processed, v being in the missing set.
C1_Witness ==
    /\ pc = "sleep"
    /\ \E v, u \in Versions :
          /\ v < u
          /\ outcome[v] = "raise"
          /\ outcome[u] \in Settled
          /\ v \in missing_versions

\* ------------------------------------------------------------------- C2
\* C2: a transport error of the catalog query never terminates the loop
\* (the tick counts as an empty-catalog tick and the catalog is polled
\* again): the process is never ended by it.
C2_CatalogFailsSoft == pc # "crashed"

\* ------------------------------------------------------------------- C3
\* C3: for a non-empty catalog C and any window_size w >= 0, the window part
\* of the plan is the min(w, |C|) largest elements of C (none when w = 0).
C3_WindowIsNewest ==
    pc \in {"reconcile", "sleep"} => Range(window) = Newest(Catalog, window_size)

\* ------------------------------------------------------------------- C4
\* C4: whenever the download of v triggers the deletion of v - K, the
\* version v - K is not in the target set of the tick.
C4_SweepSparesTargets ==
    [][\A v \in Versions :
          (Processes(v) /\ outcome'[v] = "path" /\ versions_to_keep # -1)
              => (v - versions_to_keep) \notin target_versions]_vars

\* ------------------------------------------------------------------- C5
\* C5: a targeted version of the catalog is skipped if and only if its
\* stability marker is present; a payload without marker is fetched again.
C5_SkipIffStable ==
    [][\A v \in Versions :
          (Processes(v) /\ outcome'[v] # "absent")
              => (outcome'[v] = "skip" <=> v \in stable)]_vars

\* ------------------------------------------------------------------- C6
\* C6: with a fixed non-empty catalog and every fetch succeeding, for every
\* window_size >= 1 and horizon K >= 0, eventually every version of the
\* newest window has payload and marker, and this stays so.
WindowPresent ==
    /\ Catalog # {}
    /\ \A v \in Newest(Catalog, window_size) : v \in payload /\ v \in stable

\* C6 (eventual consistency): from some point on the newest window is
\* present locally for good.
C6_EventuallyConsistent == <>[]WindowPresent

\* ------------------------------------------------------------------- C7
\* C7: a version absent from the catalog on one tick and advertised on the
\* next is in that tick's target set and fetched by it; if the fetch
\* succeeds, it has its marker and is out of the missing set when the tick
\* ends.
C7_ReturnedIsFetched ==
    [][(pc = "reconcile" /\ pc' = "sleep") =>
          \A v \in returned :
              /\ v \in target_versions'
              /\ outcome'[v] \in Fetched
              /\ outcome'[v] = "path" => (v \in stable' /\ v \notin missing_versions')]_vars

\* ------------------------------------------------------------------- C8
\* C8: with backlog mode active from b, every tick with a non-empty catalog
\* targets the cursor and advances it by exactly one, whatever happens to
\* the versions of the tick; an empty-catalog tick and the processing of a
\* version leave it alone; the first value used is b.
C8_Step ==
    /\ (pc = "start" /\ backlog_start # -1) => backlog_version = backlog_start
    /\ backlog_start # -1 => backlog_version # -1
    /\ (PlansTick /\ backlog_start # -1) =>
          /\ backlog_version \in target_versions'
          /\ backlog_version' = backlog_version + 1
    /\ (~PlansTick /\ ~EndsProcess) => backlog_version' = backlog_version

\* C8 (backlog sweep monotonicity): every step of the loop satisfies C8_Step.
C8_BacklogSweep == [][C8_Step]_vars

\* Two ticks with a non-empty catalog have used b and b + 1, the second
\* after a tick whose cursor version was not on the server.
C8_Witness ==
    /\ backlog_start # -1
    /\ backlog_version = backlog_start + 2
    /\ backlog_version - 1 \in target_versions
    /\ missing_versions # {}

\* ------------------------------------------------------------------- C9
\* C9: on every tick with a non-empty catalog the target set is the newest
\* window_size versions of the catalog, plus the backlog cursor when backlog
\* mode is on, plus the missing set as it stood when the tick began.
C9_TargetComposition ==
    [][PlansTick =>
          target_versions' =
              Newest(Range(available_versions'), window_size)
                  \cup (IF backlog_version # -1 THEN {backlog_version} ELSE {})
                  \cup missing_versions]_vars

\* ------------------------------------------------------------------ C10
\* The files of the expired version as the sweep after the download of v
\* finds them (v itself has just been written and marked).
HadPayload(v, e) == e = v \/ e \in payload
HadMarker(v, e) == e = v \/ e \in stable

C10_Rest(v, e) ==
    (~HadPayload(v, e) /\ ~HadMarker(v, e)) =>
        /\ payload' = payload \cup {v}
        /\ stable' = stable \cup {v}
        /\ pc' \in {"reconcile", "sleep"}
        /\ v \notin missing_versions'

C11_StableNeverRefetched ==
    [][\A v \in Versions :
          (Processes(v) /\ v \in Catalog /\ v \in stable) =>
              /\ outcome'[v] \notin Fetched
              /\ (v \in payload') = (v \in payload)
              /\ v \in stable'
              /\ missing_versions' \in {missing_versions, missing_versions \ {v}}]_vars

\* ------------------------------------------------------------------ C12
\* C12: in every reachable state of the output directory, a version whose
\* stability marker is present has its payload present.
C12_MarkerImpliesPayload == stable \subseteq payload

\* ------------------------------------------------------------------ C14
\* C14: the target set is processed in ascending order, and a deletion
\* triggered by the download of v targets a version strictly smaller than v
\* whose own processing in this tick, if it is targeted, is over.
C14_DeletesSettledSmaller ==
    [][\A v \in Versions :
          /\ Processes(v) =>
                \A u \in target_versions : u < v => outcome[u] \in Settled
          /\ (Processes(v) /\ outcome'[v] = "path" /\ versions_to_keep # -1) =>
                LET e == v - versions_to_keep IN
                /\ e < v
                /\ e \in target_versions => outcome[e] \in Settled]_vars

\* ------------------------------------------------------------------ C15
\* C15: at the end of every tick with a non-empty catalog, no version with a
\* stable local artifact (payload and marker) is in the missing set.
C15_StableNotMissing ==
    pc = "sleep" => \A v \in missing_versions : ~(v \in payload /\ v \in stable)

\* ------------------------------------------------------------------ C16
\* C16: with versions_to_keep = -1 no step of the loop removes a payload or
\* a stability marker: the files only grow.
C16_NoRetentionNoDeletion ==
    [][versions_to_keep = -1 =>
          (payload \subseteq payload' /\ stable \subseteq stable')]_vars

\* Retention is off, a version has just been downloaded and marked, and the
\* version after it, downloaded earlier, still has both its files.
C16_Witness ==
    /\ versions_to_keep = -1
    /\ \E v \in Versions :
          /\ outcome[v] = "path"
          /\ v + 1 \in payload /\ v + 1 \in stable
          /\ v \in payload /\ v \in stable

\* ------------------------------------------------------------------ C20
\* C20: at the end of every tick with a non-empty catalog, every version of
\* the tick's target set is stable locally (payload and marker) or in the
\* missing set, whatever the fetches returned.
C20_NothingDropped ==
    pc = "sleep" =>
        \A v \in target_versions :
            (v \in payload /\ v \in stable) \/ v \in missing_versions
\* ------------------------------------------------------------------ C13
\* C13: the sweep removes payload and marker of the expired version as two
\* independent attempts: whenever the marker is there its removal is
\* attempted, also when the payload is absent or its removal failed, so the
\* marker never stays merely because the payload was missing.
C13_IndependentRemovals ==
    [][\A v \in Versions :
          (Processes(v) /\ outcome'[v] = "path" /\ versions_to_keep # -1) =>
              LET e == v - versions_to_keep IN
              /\ HadMarker(v, e) => sweep' \in MarkerTried
              /\ (HadMarker(v, e) /\ sweep' \notin SweepFailed) => e \notin stable'
              /\ (HadPayload(v, e) /\ sweep' \notin SweepFailed) => e \notin payload']_vars

\* ------------------------------------------------------------------ C19
\* C19: a stability marker appears only in the step in which the download of
\* that version returned its path: never after a download that raised or
\* returned None, and never by a restart on a directory with unmarked
\* payloads. The directory starts empty, so every marker present goes back
\* to a download that returned.
C19_MarkerOnlyAfterFetch ==
    [][\A v \in Versions :
          (v \in stable' /\ v \notin stable) =>
              (Processes(v) /\ outcome'[v] = "path")]_vars

\* The process was stopped and started again on a directory holding a
\* payload without marker, left by a download that did not return.
C19_Witness ==
    /\ pc = "start"
    /\ \E v \in Versions : v \in payload /\ v \notin stable
\* ------------------------------------------------------------------ C17
\* C17: a tick whose catalog is empty targets and processes no version,
\* fetches and deletes nothing and leaves the missing set, the cursor and
\* the files as they are; "No versions available" is written at most once
\* by a process, however many such ticks it sees.
C17_Step ==
    /\ (AtPoll /\ pc' = "sleep_empty") =>
          /\ Pending' = {}
          /\ outcome' = outcome /\ sweep' = sweep
          /\ missing_versions' = missing_versions
          /\ backlog_version' = backlog_version
          /\ payload' = payload /\ stable' = stable
    /\ -1 \in log_keys => warnings' <= 1

C17_EmptyTickNoOp == [][C17_Step]_vars

\* An empty-catalog tick has come after ticks of the same process that left
\* files and a missing version behind; the warning is in the log once.
C17_Witness ==
    /\ pc = "sleep_empty"
    /\ -1 \in log_keys /\ -1 \in logged_versions /\ warnings = 1
    /\ missing_versions # {}
    /\ payload # {}

\* ------------------------------------------------------------------ C18
\* C18: processing a targeted version that is not in the catalog adds it to
\* the missing set, fetches nothing, deletes nothing and changes no file;
\* its "not found on server" warning is written at most once by a process.
C18_Step ==
    /\ \A v \in Versions :
          (Processes(v) /\ v \notin Catalog) =>
              /\ outcome'[v] = "absent"
              /\ v \in missing_versions'
              /\ sweep' = "-"
              /\ payload' = payload /\ stable' = stable
    /\ log_keys \cap Versions # {} => warnings' <= 1

C18_AbsentVersion == [][C18_Step]_vars

\* The version followed has been found absent on the second tick of a
\* process that targeted it on the first too; one warning is in the log.
C18_Witness ==
    /\ pc = "sleep"
    /\ \E v \in log_keys \cap Versions :
          /\ outcome[v] = "absent"
          /\ v \in missing_versions
          /\ warnings = 1
          /\ backlog_start = v /\ backlog_version = v + 2
====
